---- MODULE Spec2Model ----
(***************************************************************************)
(* Model of src/simtradelab/utils/paths.py: the project-root lookup        *)
(* (_is_project_dir, get_project_root), the derived paths (get_data_path,  *)
(* get_strategies_path) and the module-level lazy attributes (__getattr__).*)
(*                                                                         *)
(* A path is the sequence of its segments below the filesystem root; the   *)
(* root itself is the empty sequence.  The filesystem maps every path that *)
(* may ever exist to "none", "file" or "dir"; any other path never exists. *)
(***************************************************************************)
EXTENDS Naturals, Sequences, FiniteSets, TLC

VARIABLES
    fs,          \* the filesystem: path -> "none" | "file" | "dir"
    cwd,         \* the path the process entered as its working directory
    cwdValid,    \* FALSE once that directory has been removed under the process
    moduleDict,  \* the module's own namespace, as far as the lazy names go
    refreshed,   \* TRUE once a lazy name was read and the environment changed after it
    last         \* the last call made and its outcome

vars == <<fs, cwd, cwdValid, moduleDict, refreshed, last>>

----------------------------------------------------------------------------
(* Bounds of the model. *)

\* At most this many marker entries (data, manifest.json, strategies,
\* pyproject.toml) exist in the filesystem at the same time, while the root
\* lookup itself is exercised (Spec) ...
MaxEntries == 4

\* ... and while the derived paths and the lazy names are (SpecDerived).
MaxDerivedEntries == 2

----------------------------------------------------------------------------
(* pathlib.Path, as far as paths.py uses it. *)

Root == <<>>

\* Path.parent: the root is its own parent.
Parent(p) == IF p = Root THEN Root ELSE SubSeq(p, 1, Len(p) - 1)

\* path / segment
Join(p, seg) == Append(p, seg)

\* list(path.parents): every proper ancestor, nearest first, ending at the root.
Parents(p) == [i \in 1..Len(p) |-> SubSeq(p, 1, Len(p) - i)]

\* Path(__file__).resolve(): the module's own location.
ModuleFile == <<"src", "simtradelab", "utils", "paths.py">>

----------------------------------------------------------------------------
(* The filesystem the lookups read. *)

Dirs ==
    { Root,
      <<"src">>,
      <<"src", "simtradelab">>,
      <<"src", "simtradelab", "utils">>,
      <<"notebooks">> }

\* The directories in which marker entries may appear; the package directory
\* src/simtradelab only ever holds the package.
MarkedDirs == Dirs \ { <<"src", "simtradelab">> }

MarkerKinds(p) ==
    IF p[Len(p)] \in {"data", "strategies"} THEN {"file", "dir"} ELSE {"file"}

Markers ==
    UNION { { Join(d, "data"),
              Join(Join(d, "data"), "manifest.json"),
              Join(d, "strategies"),
              Join(d, "pyproject.toml") } : d \in MarkedDirs }

Nodes == Dirs \cup {ModuleFile} \cup Markers

Kind(fsv, p) == IF p \in DOMAIN fsv THEN fsv[p] ELSE "none"

is_dirAnyKind(fsv, p) == Kind(fsv, p) # "none"

\* Path.is_dir(): False for a missing path and for a path through a file.
is_dir(fsv, p) == Kind(fsv, p) = "dir"

\* Path.exists()
exists(fsv, p) == Kind(fsv, p) # "none"

Children(fsv, p) == { q \in DOMAIN fsv : q # Root /\ Parent(q) = p /\ fsv[q] # "none" }

EntryCount(fsv) == Cardinality({ q \in Markers : fsv[q] # "none" })

----------------------------------------------------------------------------
(* Outcomes of a call: a returned path, or a raised exception. *)

Ok(v) == [status |-> "ok", value |-> v, exc |-> "", name |-> ""]

Raise(e, n) == [status |-> "raise", value |-> Root, exc |-> e, name |-> n]

NoCall == [op |-> "none", arg |-> "", out |-> Ok(Root)]

\* Path.cwd(): os.getcwd() fails once the working directory has been removed.
PathCwd(cw, valid) == IF valid THEN Ok(cw) ELSE Raise("FileNotFoundError", "")

----------------------------------------------------------------------------
(* paths.py *)

_is_project_dir(fsv, path) ==
    LET data_dir == Join(path, "data") IN
    IF ~ is_dir(fsv, data_dir)
    THEN FALSE
    ELSE exists(fsv, Join(data_dir, "manifest.json")) \/ is_dir(fsv, Join(path, "strategies"))

\* for candidate in seq: if _is_project_dir(candidate): return candidate
\* The hit as a one-element sequence, or the empty sequence when the loop ends.
FirstProjectDir(fsv, seq) ==
    LET hits == { i \in 1..Len(seq) : _is_project_dir(fsv, seq[i]) } IN
    IF hits = {} THEN <<>>
    ELSE << seq[CHOOSE i \in hits : \A j \in hits : i <= j] >>

\* for parent in seq: if (parent / 'pyproject.toml').exists(): return parent
FirstWithPyproject(fsv, seq) ==
    LET hits == { i \in 1..Len(seq) : exists(fsv, Join(seq[i], "pyproject.toml")) } IN
    IF hits = {} THEN <<>>
    ELSE << seq[CHOOSE i \in hits : \A j \in hits : i <= j] >>

\* Method 1 looks at [cwd, cwd.parent], in that order.
CwdCandidatesParentFirst(c) == << Parent(c), c >>

CwdCandidatesCwdOnly(c) == << c >>

CwdCandidates(c) == << c, Parent(c) >>

\* Methods 2 and 3 look at [current] + list(current.parents), nearest first.
FarthestFirst(current) == [i \in 1..(Len(current) + 1) |-> SubSeq(current, 1, i - 1)]

ManifestWalkFarthestFirst(current) == FarthestFirst(current)

ManifestWalk(current) == << current >> \o Parents(current)

PyprojectWalkFarthestFirst(current) == FarthestFirst(current)

PyprojectWalk(current) == << current >> \o Parents(current)

\* Method 4: current.parent.parent.parent
FixedLevel(current) == Parent(Parent(Parent(current)))

get_project_root(fsv, cw, valid) ==
    LET got == PathCwd(cw, valid) IN
    IF got.status # "ok" THEN got
    ELSE
      LET current == ModuleFile
          m1 == FirstProjectDir(fsv, CwdCandidates(got.value))
          m2 == FirstProjectDir(fsv, ManifestWalk(current))
          m3 == FirstWithPyproject(fsv, PyprojectWalk(current))
      IN  IF m1 # <<>> THEN Ok(m1[1])
          ELSE IF m2 # <<>> THEN Ok(m2[1])
          ELSE IF m3 # <<>> THEN Ok(m3[1])
          ELSE Ok(FixedLevel(current))

\* root / segment, or the exception the root lookup raised.
Under(out, seg) == IF out.status = "ok" THEN Ok(Join(out.value, seg)) ELSE out

get_data_path(fsv, cw, valid) == Under(get_project_root(fsv, cw, valid), "data")

get_strategies_pathUnderData(fsv, cw, valid) == Under(get_project_root(fsv, cw, valid), "data")

get_strategies_path(fsv, cw, valid) == Under(get_project_root(fsv, cw, valid), "strategies")

\* A variant that resolves the root before it looks at the name.
__getattr__RootFirst(name, fsv, cw, valid) ==
    LET root == get_project_root(fsv, cw, valid) IN
    IF root.status # "ok" THEN root
    ELSE IF name = "PROJECT_ROOT" THEN root
    ELSE IF name = "DATA_PATH" THEN Under(root, "data")
    ELSE IF name = "STRATEGIES_PATH" THEN Under(root, "strategies")
    ELSE IF name = "ADJ_PRE_CACHE_PATH"
         THEN Under(Under(root, "data"), "ptrade_adj_pre.parquet")
    ELSE IF name = "ADJ_POST_CACHE_PATH"
         THEN Under(Under(root, "data"), "ptrade_adj_post.parquet")
    ELSE Raise("AttributeError", name)

__getattr__(name, fsv, cw, valid) ==
    IF name = "PROJECT_ROOT" THEN get_project_root(fsv, cw, valid)
    ELSE IF name = "DATA_PATH" THEN get_data_path(fsv, cw, valid)
    ELSE IF name = "STRATEGIES_PATH" THEN get_strategies_path(fsv, cw, valid)
    ELSE IF name = "ADJ_PRE_CACHE_PATH"
         THEN Under(get_data_path(fsv, cw, valid), "ptrade_adj_pre.parquet")
    ELSE IF name = "ADJ_POST_CACHE_PATH"
         THEN Under(get_data_path(fsv, cw, valid), "ptrade_adj_post.parquet")
    ELSE Raise("AttributeError", name)

\* A variant that binds the value it computed, so that later reads skip __getattr__.
NamespaceAfterBinding(dict, name, out) ==
    IF out.status = "ok"
    THEN [n \in DOMAIN dict \cup {name} |-> IF n = name THEN out.value ELSE dict[n]]
    ELSE dict

\* What __getattr__ leaves in the module namespace: it only returns, it binds nothing.
NamespaceAfter(dict, name, out) == dict

\* paths.<name>: the namespace first, __getattr__ only for a name not bound in it.
ModuleAttr(dict, name, fsv, cw, valid) ==
    IF name \in DOMAIN dict THEN Ok(dict[name]) ELSE __getattr__(name, fsv, cw, valid)

----------------------------------------------------------------------------
(* The names a caller may ask the module for. *)

LazyNames ==
    { "PROJECT_ROOT", "DATA_PATH", "STRATEGIES_PATH",
      "ADJ_PRE_CACHE_PATH", "ADJ_POST_CACHE_PATH" }

OtherNames == { "PROJECT_DIR", "data_path" }

----------------------------------------------------------------------------
(* The state after the module has been loaded. *)

Init ==
    /\ fs = [p \in Nodes |-> IF p \in Dirs THEN "dir"
                             ELSE IF p = ModuleFile THEN "file" ELSE "none"]
    /\ cwd \in Dirs
    /\ cwdValid = TRUE
    /\ moduleDict = [n \in {} |-> Root]
    /\ refreshed = FALSE
    /\ last = NoCall

----------------------------------------------------------------------------
(* The environment: the host process and the filesystem around it. *)

\* Every change of the environment ends the validity of the last outcome.
Changed ==
    /\ last' = NoCall
    /\ refreshed' = (refreshed \/ (last.op = "getattr" /\ last.arg \in LazyNames))
    /\ UNCHANGED moduleDict

Chdir(d) ==
    /\ is_dir(fs, d)
    /\ ~ (cwdValid /\ cwd = d)
    /\ cwd' = d
    /\ cwdValid' = TRUE
    /\ UNCHANGED fs
    /\ Changed

CreateEntry(p, k, bound) ==
    /\ Kind(fs, p) = "none"
    /\ is_dir(fs, Parent(p))
    /\ k \in MarkerKinds(p)
    /\ EntryCount(fs) < bound
    /\ fs' = [fs EXCEPT ![p] = k]
    /\ UNCHANGED <<cwd, cwdValid>>
    /\ Changed

RemoveEntry(p) ==
    /\ Kind(fs, p) # "none"
    /\ Children(fs, p) = {}
    /\ fs' = [fs EXCEPT ![p] = "none"]
    /\ UNCHANGED <<cwd, cwdValid>>
    /\ Changed

Rmdir(d) ==
    /\ d # Root
    /\ is_dir(fs, d)
    /\ Children(fs, d) = {}
    /\ fs' = [fs EXCEPT ![d] = "none"]
    /\ cwdValid' = (cwdValid /\ cwd # d)
    /\ UNCHANGED cwd
    /\ Changed

Mkdir(d) ==
    /\ Kind(fs, d) = "none"
    /\ is_dir(fs, Parent(d))
    /\ fs' = [fs EXCEPT ![d] = "dir"]
    /\ UNCHANGED <<cwd, cwdValid>>
    /\ Changed

----------------------------------------------------------------------------
(* The calls into paths.py. *)

Call(op, arg, out) ==
    /\ last' = [op |-> op, arg |-> arg, out |-> out]
    /\ UNCHANGED <<fs, cwd, cwdValid, refreshed>>

CallGetProjectRoot ==
    /\ Call("get_project_root", "", get_project_root(fs, cwd, cwdValid))
    /\ UNCHANGED moduleDict

CallGetDataPath ==
    /\ Call("get_data_path", "", get_data_path(fs, cwd, cwdValid))
    /\ UNCHANGED moduleDict

CallGetStrategiesPath ==
    /\ Call("get_strategies_path", "", get_strategies_path(fs, cwd, cwdValid))
    /\ UNCHANGED moduleDict

ReadAttr(name) ==
    LET out == ModuleAttr(moduleDict, name, fs, cwd, cwdValid) IN
    /\ Call("getattr", name, out)
    /\ moduleDict' = NamespaceAfter(moduleDict, name, out)

----------------------------------------------------------------------------

Environment(bound) ==
    \/ \E d \in Dirs : Chdir(d)
    \/ \E p \in Markers : \E k \in {"file", "dir"} : CreateEntry(p, k, bound)
    \/ \E p \in Markers : RemoveEntry(p)
    \/ \E d \in Dirs : Rmdir(d)
    \/ \E d \in Dirs : Mkdir(d)

\* The root lookup in a changing environment.
Next ==
    \/ Environment(MaxEntries)
    \/ CallGetProjectRoot

Spec == Init /\ [][Next]_vars

\* The derived paths and the lazy names in a changing environment.
NextDerived ==
    \/ Environment(MaxDerivedEntries)
    \/ CallGetDataPath
    \/ CallGetStrategiesPath
    \/ \E name \in LazyNames \cup OtherNames : ReadAttr(name)

SpecDerived == Init /\ [][NextDerived]_vars

----------------------------------------------------------------------------
(* Vocabulary of the properties. *)

RootCalled == last.op = "get_project_root"

Passes(p) == _is_project_dir(fs, p)

HoldsPyproject(p) == Kind(fs, Append(p, "pyproject.toml")) # "none"

\* A path and everything above it, up to the filesystem root.
Enclosing(p) == { SubSeq(p, 1, k) : k \in 0..Len(p) }

\* The deepest path of a non-empty set of paths that lie on one line of descent.
Nearest(S) == CHOOSE p \in S : \A q \in S : Len(q) <= Len(p)

ModuleAncestors == Enclosing(ModuleFile)

\* The working directory has a path, and neither it nor its parent passes.
CwdMisses == cwdValid /\ ~ Passes(cwd) /\ ~ Passes(Parent(cwd))

----------------------------------------------------------------------------
(* Properties of the root lookup, checked under Spec. *)

\* C1: get_project_root returns the working directory when it passes
\* _is_project_dir, and its direct parent when only the parent passes,
\* whatever the ancestors of the module file hold.
C1_CwdThenParent ==
    (RootCalled /\ cwdValid) =>
        /\ Passes(cwd) => last.out = Ok(cwd)
        /\ (~ Passes(cwd) /\ Passes(Parent(cwd))) => last.out = Ok(Parent(cwd))

\* C1 witness: run from notebooks/, whose parent passes, while a directory
\* above the module file passes as well; the parent was returned.
C1_Witness ==
    /\ RootCalled /\ cwdValid
    /\ cwd = <<"notebooks">>
    /\ ~ Passes(cwd) /\ Passes(Parent(cwd))
    /\ Passes(<<"src", "simtradelab", "utils">>)
    /\ last.out = Ok(Root)

\* C2: when neither the working directory nor its parent passes, the nearest
\* ancestor of the module file that passes _is_project_dir is returned, also
\* when a nearer ancestor holds pyproject.toml.
C2_NearestPassingAncestor ==
    (RootCalled /\ CwdMisses /\ (\E a \in ModuleAncestors : Passes(a))) =>
        last.out = Ok(Nearest({ a \in ModuleAncestors : Passes(a) }))

\* C2 witness: pyproject.toml sits nearer to the module file than the only
\* ancestor that passes, and the passing ancestor was returned.
C2_Witness ==
    /\ RootCalled /\ CwdMisses
    /\ HoldsPyproject(<<"src", "simtradelab", "utils">>)
    /\ Passes(<<"src">>)
    /\ last.out = Ok(<<"src">>)

\* C3 (as claimed): when no heuristic succeeds, the directory three levels
\* above the directory that contains the module file is returned; for
\* src/simtradelab/utils/paths.py that is the directory that holds src/.
C3_ThreeLevelsAboveModuleDir ==
    ( /\ RootCalled /\ CwdMisses
      /\ \A a \in ModuleAncestors : ~ Passes(a) /\ ~ HoldsPyproject(a) ) =>
        last.out = Ok(Parent(Parent(Parent(Parent(ModuleFile)))))

C5_IsProjectDirIff ==
    \A p \in Nodes \cup { <<"absent">> } :
        _is_project_dir(fs, p) <=>
            /\ Kind(fs, Append(p, "data")) = "dir"
            /\ \/ Kind(fs, Append(Append(p, "data"), "manifest.json")) # "none"
               \/ Kind(fs, Append(p, "strategies")) = "dir"

\* C5 witness: the lookup ran in a directory that holds only data/, below a
\* directory whose data is a file beside a strategies/ directory, and
\* returned neither.
C5_Witness ==
    /\ RootCalled /\ cwdValid /\ cwd # Root
    /\ Kind(fs, Append(cwd, "data")) = "dir"
    /\ Kind(fs, Append(Append(cwd, "data"), "manifest.json")) = "none"
    /\ Kind(fs, Append(cwd, "strategies")) = "none"
    /\ Kind(fs, Append(Parent(cwd), "data")) = "file"
    /\ Kind(fs, Append(Parent(cwd), "strategies")) = "dir"
    /\ last.out.status = "ok"
    /\ last.out.value \notin {cwd, Parent(cwd)}

\* C6 (as claimed): get_project_root never raises, also when the working
\* directory has been removed since the process entered it.
C6_NeverRaises == RootCalled => last.out.status = "ok"

\* C10: when nothing passes _is_project_dir but some ancestor of the module
\* file holds pyproject.toml, the nearest such ancestor is returned, not the
\* fixed-level directory.
C10_NearestPyproject ==
    ( /\ RootCalled /\ CwdMisses
      /\ \A a \in ModuleAncestors : ~ Passes(a)
      /\ \E a \in ModuleAncestors : HoldsPyproject(a) ) =>
        last.out = Ok(Nearest({ a \in ModuleAncestors : HoldsPyproject(a) }))

\* C10 witness: two ancestors hold pyproject.toml, neither is the fixed-level
\* directory, and the nearer one was returned.
C10_Witness ==
    /\ RootCalled /\ CwdMisses
    /\ \A a \in ModuleAncestors : ~ Passes(a)
    /\ HoldsPyproject(Root)
    /\ HoldsPyproject(<<"src", "simtradelab", "utils">>)
    /\ ~ HoldsPyproject(FixedLevel(ModuleFile))
    /\ last.out = Ok(<<"src", "simtradelab", "utils">>)

----------------------------------------------------------------------------
(* Properties of the derived paths and the lazy names, checked under SpecDerived. *)

\* The outcome `out` with one more segment under its path; an exception passes through.
Extended(out, seg) == IF out.status = "ok" THEN Ok(Append(out.value, seg)) ELSE out

RootNow == get_project_root(fs, cwd, cwdValid)

\* What a call made now, from scratch, gives for a lazy name.
FreshValue(name) ==
    CASE name = "PROJECT_ROOT" -> RootNow
      [] name = "DATA_PATH" -> get_data_path(fs, cwd, cwdValid)
      [] name = "STRATEGIES_PATH" -> get_strategies_path(fs, cwd, cwdValid)
      [] name = "ADJ_PRE_CACHE_PATH" -> Extended(get_data_path(fs, cwd, cwdValid), "ptrade_adj_pre.parquet")
      [] name = "ADJ_POST_CACHE_PATH" -> Extended(get_data_path(fs, cwd, cwdValid), "ptrade_adj_post.parquet")

\* C7: every read of a lazy name gives the value computed from the working
\* directory and the filesystem at that moment, never one remembered from an
\* earlier read.
C7_NeverCached ==
    (last.op = "getattr" /\ last.arg \in LazyNames) => last.out = FreshValue(last.arg)

\* C7 witness: PROJECT_ROOT was read, the environment changed, and a later
\* read gave the working directory of that moment.
C7_Witness ==
    /\ refreshed
    /\ last.op = "getattr" /\ last.arg = "PROJECT_ROOT"
    /\ cwd = <<"notebooks">>
    /\ last.out = Ok(cwd)

\* C8: get_data_path() is get_project_root() / "data", get_strategies_path()
\* is get_project_root() / "strategies", and the two cache paths are
\* get_data_path() / their file name, whether or not the directories exist.
C8_DerivedPaths ==
    /\ last.op = "get_data_path" => last.out = Extended(RootNow, "data")
    /\ last.op = "get_strategies_path" => last.out = Extended(RootNow, "strategies")
    /\ (last.op = "getattr" /\ last.arg = "ADJ_PRE_CACHE_PATH") =>
            last.out = Extended(get_data_path(fs, cwd, cwdValid), "ptrade_adj_pre.parquet")
    /\ (last.op = "getattr" /\ last.arg = "ADJ_POST_CACHE_PATH") =>
            last.out = Extended(get_data_path(fs, cwd, cwdValid), "ptrade_adj_post.parquet")

\* C8 witness: get_strategies_path() gave <project>/strategies for a project
\* that has no strategies directory.
C8_Witness ==
    /\ last.op = "get_strategies_path"
    /\ cwdValid /\ Passes(cwd) /\ cwd # Root
    /\ Kind(fs, Append(cwd, "strategies")) = "none"
    /\ last.out = Ok(Append(cwd, "strategies"))

\* C9: the lazy accessor knows exactly five names; any other name fails with
\* an AttributeError that carries the name, without a root lookup before it.
C9_UnknownName ==
    last.op = "getattr" =>
        IF last.arg \in { "PROJECT_ROOT", "DATA_PATH", "STRATEGIES_PATH",
                          "ADJ_PRE_CACHE_PATH", "ADJ_POST_CACHE_PATH" }
        THEN last.out.exc # "AttributeError"
        ELSE last.out = [status |-> "raise", value |-> Root,
                         exc |-> "AttributeError", name |-> last.arg]

\* C9 witness: an unknown name was asked for while the working directory was
\* gone, where a root lookup would have failed first.
C9_Witness ==
    /\ last.op = "getattr" /\ last.arg = "PROJECT_DIR"
    /\ ~ cwdValid
    /\ last.out.exc = "AttributeError" /\ last.out.name = "PROJECT_DIR"

====
